---- MODULE Spec2Model ----
(***************************************************************************)
(* Model of the section generation orchestrator of app/services.py:        *)
(* generate_business_plan awaits one call_individual_section job per       *)
(* registry key, each job driving up to max_retries transport calls, and   *)
(* merges the jobs' results into one document.  RepairSpec applies         *)
(* clean_json_response to reply texts taken character by character.        *)
(***************************************************************************)
EXTENDS Integers, Sequences, FiniteSets, TLC

VARIABLES pc, error, idx, job, attempt, calls, failed, kinds, response,
          result, merged_plan, plan, status, slept, content, cleaned, loaded,
          request, context, prompt, messages, payload, suggestions, asked

vars == <<pc, error, idx, job, attempt, calls, failed, kinds, response,
          result, merged_plan, plan, status, slept, content, cleaned, loaded,
          request, context, prompt, messages,
                 payload, suggestions, asked>>

----------------------------------------------------------------------------
(* The section schema registry, in declaration order: key, type and        *)
(* min_words (schema.get("min_words", 0) for the entries that have none).  *)

INDIVIDUAL_SECTION_SCHEMAS ==
  << [key |-> "executive_summary",            type |-> "string", min_words |-> 300],
     [key |-> "business_overview",            type |-> "string", min_words |-> 500],
     [key |-> "market_analysis",              type |-> "string", min_words |-> 700],
     [key |-> "business_model",               type |-> "string", min_words |-> 500],
     [key |-> "marketing_and_sales_strategy", type |-> "string", min_words |-> 500],
     [key |-> "financial_highlights",         type |-> "json",   min_words |-> 0],
     [key |-> "cash_flow_analysis",           type |-> "json",   min_words |-> 0],
     [key |-> "profit_and_loss_projection",   type |-> "json",   min_words |-> 0],
     [key |-> "balance_sheet",                type |-> "json",   min_words |-> 0],
     [key |-> "net_financial_position",       type |-> "json",   min_words |-> 0],
     [key |-> "debt_structure",               type |-> "json",   min_words |-> 0],
     [key |-> "key_ratios",                   type |-> "json",   min_words |-> 0],
     [key |-> "operating_cost_breakdown",     type |-> "json",   min_words |-> 0],
     [key |-> "sector_strategy",              type |-> "string", min_words |-> 300],
     [key |-> "funding_sources",              type |-> "string", min_words |-> 300],
     [key |-> "operations_plan",              type |-> "string", min_words |-> 300],
     [key |-> "financial_analysis",           type |-> "json",   min_words |-> 0],
     [key |-> "ratios_analysis",              type |-> "json",   min_words |-> 0],
     [key |-> "management_team",              type |-> "string", min_words |-> 800],
     [key |-> "production_sales_forecast",    type |-> "json",   min_words |-> 0] >>

(* The model generates the last NumSections entries of the registry, in    *)
(* registry order: with 2 these are one narrative and one tabular section. *)
NumSections == 2

(* A model-only cap on the transport calls of one section; the code's own  *)
(* budget is max_retries, which is smaller.                                *)
CallCap == 5

(* max_retries=3 as passed by generate_business_plan.                      *)
max_retries == 3

(* len(section_content.strip()) < 50                                       *)
MinChars == 50

(* len(section_content) < 3                                                *)
MinRecords == 3

FirstSection == Len(INDIVIDUAL_SECTION_SCHEMAS) - NumSections + 1

(* all_sections = list(INDIVIDUAL_SECTION_SCHEMAS.keys()), as positions.   *)
all_sections == FirstSection .. Len(INDIVIDUAL_SECTION_SCHEMAS)

(* A variant that walks the registry from its last key to its first.       *)
KeyOfReversed(i) ==
  INDIVIDUAL_SECTION_SCHEMAS[Len(INDIVIDUAL_SECTION_SCHEMAS) + FirstSection - i].key

KeyOf(i) == INDIVIDUAL_SECTION_SCHEMAS[i].key

RegistryKeys == { KeyOf(i) : i \in all_sections }

IndexOf(k) == CHOOSE i \in all_sections : KeyOf(i) = k

TypeOf(k) == INDIVIDUAL_SECTION_SCHEMAS[IndexOf(k)].type

MinWordsOf(k) == INDIVIDUAL_SECTION_SCHEMAS[IndexOf(k)].min_words

----------------------------------------------------------------------------
(* JSON values as the validator sees them: kind, size (stripped length of  *)
(* a string, number of records of a list) and words (len(s.split())).      *)

StrValue(chars, nwords) == [kind |-> "str", size |-> chars, words |-> nwords]

ListValue(n) == [kind |-> "list", size |-> n, words |-> 0]

OtherValue(kd) == [kind |-> kd, size |-> 0, words |-> 0]

EmptyString == StrValue(0, 0)

EmptyList == ListValue(0)

(* A text of nwords words of five letters, separated by single blanks.     *)
Prose(nwords) == StrValue(6 * nwords - 1, nwords)

(* The least word count that passes word_count < min_words * 0.8; for the  *)
(* registry's min_words (300, 500, 700, 800) the float product is the      *)
(* exact integer 8 * min_words / 10.                                       *)
WordFloor(k) == (8 * MinWordsOf(k)) \div 10

(* What json.loads(clean_json_response(content)) yields: j is the shape    *)
(* ("unparsable" when it raises JSONDecodeError), haskey is Python's       *)
(* section_key in result, extra tells an object with other keys too, val   *)
(* is result[section_key] of an object.                                    *)
Parsed(shape, has, ex, v) == [j |-> shape, haskey |-> has, extra |-> ex, val |-> v]

NoValue == OtherValue("none")

NoResult == Parsed("none", FALSE, FALSE, NoValue)

(* A transport reply: the call raises, or returns a text that parses to p. *)
Raises == [t |-> "raise", parsed |-> NoResult]

Text(p) == [t |-> "text", parsed |-> p]

NoResponse == [t |-> "none", parsed |-> NoResult]

(* The section values an upstream reply may carry for key k.               *)
ValuesFor(k) ==
  IF TypeOf(k) = "string"
  THEN { StrValue(MinChars - 1, 8), StrValue(MinChars, 8), ListValue(MinRecords),
         Prose(WordFloor(k) - 1), Prose(WordFloor(k)), Prose(MinWordsOf(k)) }
  ELSE { StrValue(MinChars, 8), OtherValue("object"),
         ListValue(MinRecords - 1), ListValue(MinRecords) }

(* The replies the upstream may give to one call for key k.                *)
Replies(k) ==
  { Raises,
    Text(Parsed("unparsable", FALSE, FALSE, NoValue)),
    Text(Parsed("scalar", FALSE, FALSE, NoValue)),
    Text(Parsed("array", FALSE, FALSE, NoValue)),
    Text(Parsed("array", TRUE, FALSE, NoValue)),
    Text(Parsed("string", TRUE, FALSE, NoValue)),
    Text(Parsed("object", FALSE, TRUE, NoValue)) }
  \cup { Text(Parsed("object", TRUE, FALSE, v)) : v \in ValuesFor(k) }
  \cup { Text(Parsed("object", TRUE, TRUE, ListValue(MinRecords))) }

----------------------------------------------------------------------------
(* A variant that answers every kind with the empty string.                *)
create_empty_string_only(k) == Parsed("object", TRUE, FALSE, EmptyString)

(* A variant that returns None for a failed job.                           *)
create_empty_none(k) == Parsed("scalar", FALSE, FALSE, NoValue)

(* create_empty_individual_section: the dict returned for a failed job.    *)
create_empty_individual_section(k) ==
  Parsed("object", TRUE, FALSE,
         IF TypeOf(k) = "string" THEN EmptyString ELSE EmptyList)

(* The fallback expression of generate_business_plan (lines 651, 660, 670).*)
SectionFallback(k) == IF TypeOf(k) = "string" THEN EmptyString ELSE EmptyList

(* A variant whose word-count test is word_count <= min_words * 0.8.       *)
ValidateContentInclusive(k, v) ==
  IF TypeOf(k) = "string"
  THEN IF v.kind # "str" \/ v.size < MinChars THEN "ValueError"
       ELSE IF 10 * v.words <= 8 * MinWordsOf(k) THEN "short"
       ELSE "ok"
  ELSE IF TypeOf(k) = "array"
  THEN IF v.kind # "list" \/ v.size < MinRecords THEN "ValueError" ELSE "ok"
  ELSE "ok"

(* A variant without the character floor of line 531.                      *)
ValidateContentNoFloor(k, v) ==
  IF TypeOf(k) = "string"
  THEN IF v.kind # "str" THEN "ValueError"
       ELSE IF 10 * v.words < 8 * MinWordsOf(k) THEN "short"
       ELSE "ok"
  ELSE IF TypeOf(k) = "array"
  THEN IF v.kind # "list" \/ v.size < MinRecords THEN "ValueError" ELSE "ok"
  ELSE "ok"

(* The content validation of call_individual_section on result[key].       *)
ValidateContent(k, v) ==
  IF TypeOf(k) = "string"
  THEN IF v.kind # "str" \/ v.size < MinChars THEN "ValueError"
       ELSE IF 10 * v.words < 8 * MinWordsOf(k) THEN "short"
       ELSE "ok"
  ELSE IF TypeOf(k) = "array"
  THEN IF v.kind # "list" \/ v.size < MinRecords THEN "ValueError" ELSE "ok"
  ELSE "ok"

(* A variant that returns whatever parsed, without looking for the key.    *)
ParseOutcomeUnchecked(k, p) ==
  IF p.j = "unparsable" THEN "JSONDecodeError" ELSE "ok"

(* A variant without the key test of lines 523-524.                        *)
ParseOutcomeKeyless(k, p) ==
  IF p.j = "unparsable" THEN "JSONDecodeError"
  ELSE IF p.j = "scalar" THEN "TypeError"
  ELSE IF ~p.haskey THEN "ok"
  ELSE IF p.j # "object" THEN "TypeError"
  ELSE ValidateContent(k, p.val)

(* Lines 519-546 on a parsed reply: the exception raised, "short" for a    *)
(* word-count shortfall, or "ok".                                          *)
ParseOutcome(k, p) ==
  IF p.j = "unparsable" THEN "JSONDecodeError"
  ELSE IF p.j = "scalar" THEN "TypeError"
  ELSE IF ~p.haskey THEN "ValueError"
  ELSE IF p.j # "object" THEN "TypeError"
  ELSE ValidateContent(k, p.val)

(* One pass of the retry loop on reply r.                                  *)
AttemptOutcome(k, r) ==
  IF r.t = "raise" THEN "Exception" ELSE ParseOutcome(k, r.parsed)

(* The failure kind of an attempt, for the diagnostics of a job.           *)
FailureKind(r, o) ==
  IF r.t = "raise" THEN "transport"
  ELSE IF o = "JSONDecodeError" THEN "unparsable"
  ELSE "validation"

(* A variant with one retry budget shared by all jobs: once some job is    *)
(* exhausted every later failure is final.                                 *)
LastAttemptShared(a) ==
  a = max_retries - 1 \/ \E k \in RegistryKeys : job[k] = "Exhausted"

(* A variant that compares the loop variable with max_retries itself.      *)
LastAttemptOffByOne(a) == a = max_retries

(* attempt == max_retries - 1                                              *)
LastAttempt(a) == a = max_retries - 1

(* A variant that retries a word-count shortfall on every attempt.         *)
RetriesShortAlways(a) == TRUE

(* The word-count branch retries only when attempt < max_retries - 1.      *)
RetriesShort(a) == a < max_retries - 1

(* The sleep before the next attempt, in half seconds: none on the        *)
(* word-count continue (line 539), asyncio.sleep(1) in the inner handler   *)
(* (line 553), (2 ** attempt) + 0.5 in the outer handler (lines 561-563).  *)
BackoffDelay(o, a) ==
  IF o = "short" THEN 0
  ELSE IF o \in {"ValueError", "JSONDecodeError"} THEN 2
  ELSE 2 ^ (a + 1) + 1

(* Whether the pass returns result (line 546).                             *)
Returns(a, o) == o = "ok" \/ (o = "short" /\ ~RetriesShort(a))

(* A variant in which a retry does not advance the loop variable.          *)
NextAttemptSame(a) == a

(* The loop variable after a failed pass.                                  *)
NextAttempt(a) == a + 1

----------------------------------------------------------------------------
EmptyMap == [k \in {} |-> NoValue]

(* A variant of the merge that leaves out a key whose value is empty.      *)
PutNonEmpty(m, k, v) ==
  IF v.size = 0 THEN m ELSE [x \in DOMAIN m \cup {k} |-> IF x = k THEN v ELSE m[x]]

(* A variant that merges with update(): every key not yet in the plan is   *)
(* written with the value of the job at hand.                              *)
PutUpdate(m, k, v) ==
  [x \in RegistryKeys |-> IF x = k \/ x \notin DOMAIN m THEN v ELSE m[x]]

(* A variant whose entries all alias the value merged last.                *)
PutOverwrite(m, k, v) == [x \in DOMAIN m \cup {k} |-> v]

(* merged_plan[section_key] = value                                        *)
Put(m, k, v) == [x \in DOMAIN m \cup {k} |-> IF x = k THEN v ELSE m[x]]

(* A variant of the fallback that returns what was merged so far.          *)
partial_plan == merged_plan

(* The whole-document fallback of lines 668-671.                           *)
empty_plan == [k \in RegistryKeys |-> SectionFallback(k)]

----------------------------------------------------------------------------
(* Reply texts as sequences of characters, and clean_json_response on      *)
(* them.  Positions are 1-based; 0 stands for Python's -1 (not found).     *)

(* The whitespace \s and strip() remove.                                   *)
IsSpace(c) == c \in {" ", "\t", "\n", "\r", "\f"}

(* re.IGNORECASE on the letters of the tag.                                *)
Lower(c) ==
  CASE c = "J" -> "j" [] c = "S" -> "s" [] c = "O" -> "o" [] c = "N" -> "n"
    [] OTHER -> c

Take(s, n) == SubSeq(s, 1, n)

Drop(s, n) == SubSeq(s, n + 1, Len(s))

RECURSIVE LStrip(_)
LStrip(s) == IF s # <<>> /\ IsSpace(Head(s)) THEN LStrip(Tail(s)) ELSE s

RECURSIVE RStrip(_)
RStrip(s) ==
  IF s # <<>> /\ IsSpace(s[Len(s)]) THEN RStrip(Take(s, Len(s) - 1)) ELSE s

(* str.strip()                                                             *)
Strip(s) == LStrip(RStrip(s))

(* The character U+0060, which a TLA+ string cannot hold.                  *)
Backtick == "U+0060"

Fence == <<Backtick, Backtick, Backtick>>

JsonFence == Fence \o <<"j", "s", "o", "n">>

StartsWithNoCase(s, p) ==
  Len(s) >= Len(p) /\ \A i \in 1 .. Len(p) : Lower(s[i]) = p[i]

EndsWith(s, p) ==
  Len(s) >= Len(p) /\ \A i \in 1 .. Len(p) : s[Len(s) - Len(p) + i] = p[i]

(* re.sub(r'^```json\s*', '', text, flags=re.IGNORECASE)                   *)
StripOpeningFence(s) ==
  IF StartsWithNoCase(s, JsonFence) THEN LStrip(Drop(s, Len(JsonFence))) ELSE s

(* re.sub(r'\s*```\s*$', '', text): the match is the last fence with the   *)
(* whitespace around it, when only whitespace follows that fence.          *)
StripClosingFence(s) ==
  IF EndsWith(RStrip(s), Fence)
  THEN RStrip(Take(RStrip(s), Len(RStrip(s)) - Len(Fence)))
  ELSE s

(* str.find(c)                                                             *)
Find(s, c) ==
  IF \E i \in 1 .. Len(s) : s[i] = c
  THEN CHOOSE i \in 1 .. Len(s) : s[i] = c /\ \A j \in 1 .. i - 1 : s[j] # c
  ELSE 0

(* str.rfind(c)                                                            *)
RFind(s, c) ==
  IF \E i \in 1 .. Len(s) : s[i] = c
  THEN CHOOSE i \in 1 .. Len(s) : s[i] = c /\ \A j \in i + 1 .. Len(s) : s[j] # c
  ELSE 0

(* Lines 579-584: the text before the first "{" (before the first "[" when *)
(* there is no "{") is removed.                                            *)
CutHead(s) ==
  LET start == IF Find(s, "{") = 0 THEN Find(s, "[") ELSE Find(s, "{")
  IN IF start > 1 THEN Drop(s, start - 1) ELSE s

(* Lines 586-588: the text after the last "}" or "]" is removed.           *)
CutTail(s) ==
  LET a == RFind(s, "}")
      b == RFind(s, "]")
      end == IF a > b THEN a ELSE b
  IN IF end # 0 /\ end < Len(s) THEN Take(s, end) ELSE s

(* re.sub(r',\s*]', ']', text) and re.sub(r',\s*}', '}', text): every      *)
(* comma followed by optional whitespace and the closer c is dropped       *)
(* together with that whitespace, wherever it stands in the text.          *)
RECURSIVE DropCommaBefore(_, _)
DropCommaBefore(s, c) ==
  IF s = <<>> THEN <<>>
  ELSE IF Head(s) = "," /\ LStrip(Tail(s)) # <<>> /\ Head(LStrip(Tail(s))) = c
  THEN <<c>> \o DropCommaBefore(Tail(LStrip(Tail(s))), c)
  ELSE <<Head(s)>> \o DropCommaBefore(Tail(s), c)

(* clean_json_response(text), lines 572-594.                               *)
clean_json_response(text) ==
  Strip(DropCommaBefore(
          DropCommaBefore(CutTail(CutHead(StripClosingFence(StripOpeningFence(text)))),
                          "]"),
          "}"))

(* A reply text in three parts: what precedes the object, the object, and  *)
(* what follows it.                                                        *)
Reply(h, o, t) == [head |-> h, object |-> o, tail |-> t]

ReplyText(c) == c.head \o c.object \o c.tail

NoContent == Reply(<<>>, <<>>, <<>>)

(* {"k": "hi"}                                                             *)
PlainObject ==
  <<"{", "\"", "k", "\"", ":", " ", "\"", "h", "i", "\"", "}">>

(* {"k": "a\"{b"}                                                          *)
OpenBraceInString ==
  <<"{", "\"", "k", "\"", ":", " ", "\"", "a", "\\", "\"", "{", "b", "\"", "}">>

(* {"k": "a\"}b"}                                                          *)
CloseBraceInString ==
  <<"{", "\"", "k", "\"", ":", " ", "\"", "a", "\\", "\"", "}", "b", "\"", "}">>

(* {"k": "a\"[b]"}                                                         *)
BracketsInString ==
  <<"{", "\"", "k", "\"", ":", " ", "\"", "a", "\\", "\"", "[", "b", "]", "\"", "}">>

(* {"k": "a\", }"}                                                         *)
CommaBraceInString ==
  <<"{", "\"", "k", "\"", ":", " ", "\"", "a", "\\", "\"", ",", " ", "}", "\"", "}">>

(* {"k": ["a", "b"]}                                                       *)
ListObject ==
  <<"{", "\"", "k", "\"", ":", " ", "[", "\"", "a", "\"", ",", " ", "\"", "b", "\"",
    "]", "}">>

Objects ==
  { PlainObject, OpenBraceInString, CloseBraceInString, BracketsInString,
    CommaBraceInString, ListObject }

(* Nothing, a json fence, a JSON fence, a bare fence, a python fence, or   *)
(* a line of prose before the object.                                      *)
Heads ==
  { <<>>,
    JsonFence \o <<"\n">>,
    Fence \o <<"J", "S", "O", "N", "\n">>,
    Fence \o <<"\n">>,
    Fence \o <<"p", "y", "\n">>,
    <<"O", "k", ":", " ">> }

ClosingFence == <<"\n">> \o Fence

(* Nothing, prose, prose with braces, prose with brackets, a second        *)
(* object, each with or without a closing fence before or after it.        *)
Proses ==
  { <<>>,
    <<"\n", "o", "k">>,
    <<"\n", "u", "s", "e", " ", "{", "x", "}">>,
    <<"\n", "s", "e", "e", " ", "[", "1", "]">>,
    <<"\n">> \o PlainObject }

Tails ==
  Proses \cup { p \o ClosingFence : p \in Proses }
         \cup { ClosingFence \o p : p \in Proses }

(* {"k": "hi",}                                                            *)
TrailingCommaObject ==
  <<"{", "\"", "k", "\"", ":", " ", "\"", "h", "i", "\"", ",", "}">>

(* {"k": ["a", "b", ]}                                                     *)
TrailingCommaList ==
  <<"{", "\"", "k", "\"", ":", " ", "[", "\"", "a", "\"", ",", " ", "\"", "b", "\"",
    ",", " ", "]", "}">>

(* {k: "hi"}                                                               *)
UnquotedKeyObject == <<"{", "k", ":", " ", "\"", "h", "i", "\"", "}">>

(* Objects that miss well-formedness by a trailing comma or an unquoted    *)
(* key.                                                                    *)
NearMisses == { TrailingCommaObject, TrailingCommaList, UnquotedKeyObject }

(* {"k": "hi", "x                                                          *)
TruncatedAfterString ==
  <<"{", "\"", "k", "\"", ":", " ", "\"", "h", "i", "\"", ",", " ", "\"", "x">>

(* {"k": ["a", "b"], "x                                                    *)
TruncatedAfterList ==
  <<"{", "\"", "k", "\"", ":", " ", "[", "\"", "a", "\"", ",", " ", "\"", "b", "\"",
    "]", ",", " ", "\"", "x">>

(* {"k": "hi"                                                              *)
UnbalancedObject == <<"{", "\"", "k", "\"", ":", " ", "\"", "h", "i", "\"">>

(* ["a", "b"]                                                              *)
ArrayText == <<"[", "\"", "a", "\"", ",", " ", "\"", "b", "\"", "]">>

(* [{"k": "hi"}]                                                           *)
ArrayOfObjects == <<"[">> \o PlainObject \o <<"]">>

(* Texts that are no JSON object: nothing, prose, cut or unbalanced        *)
(* objects, a number, null, a string that holds the key, arrays.           *)
Malformed ==
  { <<>>,
    <<"o", "k">>,
    TruncatedAfterString,
    TruncatedAfterList,
    UnbalancedObject,
    <<"1">>,
    <<"n", "u", "l", "l">>,
    <<"\"", "o", "k", "\"">>,
    ArrayText,
    ArrayOfObjects }

(* What may stand where the object stands in a reply.                      *)
Bodies == Objects \cup NearMisses \cup Malformed

(* The contents response.choices[0].message.content may have.              *)
Contents == { Reply(h, o, t) : h \in Heads, o \in Bodies, t \in Tails }

----------------------------------------------------------------------------
(* json.loads on a sequence of characters.  A value is a record of its     *)
(* type t and its content v: the characters of a string or a number, the   *)
(* items of a list, the members of a dict in the order read, the letters  *)
(* of a literal.  Fractions, exponents and \u escapes are not modelled.       *)

JStr(cs) == [t |-> "str", v |-> cs]

JNum(cs) == [t |-> "num", v |-> cs]

JLit(cs) == [t |-> "lit", v |-> cs]

JList(items) == [t |-> "list", v |-> items]

JDict(members) == [t |-> "dict", v |-> members]

Member(k, x) == [key |-> k, value |-> x]

(* json.JSONDecodeError in the place of a value.                           *)
JSONDecodeError == [t |-> "JSONDecodeError", v |-> <<>>]

Scanned(x, n) == [ok |-> TRUE, val |-> x, next |-> n]

ScanError == [ok |-> FALSE, val |-> JSONDecodeError, next |-> 0]

(* The whitespace of the JSON grammar.                                     *)
JsonSpace(c) == c \in {" ", "\t", "\n", "\r"}

Digits == {"0", "1", "2", "3", "4", "5", "6", "7", "8", "9"}

RECURSIVE SkipSpace(_, _)
SkipSpace(s, i) ==
  IF i <= Len(s) /\ JsonSpace(s[i]) THEN SkipSpace(s, i + 1) ELSE i

(* The character an escape sequence stands for.                            *)
Unescape(c) ==
  CASE c = "n" -> "\n" [] c = "t" -> "\t" [] c = "r" -> "\r" [] c = "f" -> "\f"
    [] c = "b" -> "U+0008" [] OTHER -> c

(* The string whose opening quote stands before position i (strict mode:   *)
(* a raw control character ends the parse).                                *)
RECURSIVE ScanString(_, _, _)
ScanString(s, i, acc) ==
  IF i > Len(s) THEN ScanError
  ELSE IF s[i] = "\"" THEN Scanned(JStr(acc), i + 1)
  ELSE IF s[i] = "\\"
  THEN IF i + 1 <= Len(s) /\ s[i + 1] \in {"\"", "\\", "/", "b", "f", "n", "r", "t"}
       THEN ScanString(s, i + 2, Append(acc, Unescape(s[i + 1])))
       ELSE ScanError
  ELSE IF s[i] \in {"\n", "\t", "\r", "\f"} THEN ScanError
  ELSE ScanString(s, i + 1, Append(acc, s[i]))

RECURSIVE ScanDigits(_, _)
ScanDigits(s, i) ==
  IF i <= Len(s) /\ s[i] \in Digits THEN ScanDigits(s, i + 1) ELSE i

(* An integer at position i: 0, or a run of digits that starts with none.  *)
ScanNumber(s, i) ==
  LET d == IF s[i] = "-" THEN i + 1 ELSE i
      e == IF d <= Len(s) /\ s[d] = "0" THEN d + 1 ELSE ScanDigits(s, d)
  IN IF e = d THEN ScanError ELSE Scanned(JNum(SubSeq(s, i, e - 1)), e)

StartsAt(s, i, w) ==
  i + Len(w) - 1 <= Len(s) /\ SubSeq(s, i, i + Len(w) - 1) = w

(* null, true, false                                                       *)
Literals ==
  { <<"n", "u", "l", "l">>, <<"t", "r", "u", "e">>, <<"f", "a", "l", "s", "e">> }

RECURSIVE ScanValue(_, _), ScanMembers(_, _, _), ScanItems(_, _, _)

(* The value that starts at position i, which is no whitespace.            *)
ScanValue(s, i) ==
  IF i > Len(s) THEN ScanError
  ELSE IF s[i] = "\"" THEN ScanString(s, i + 1, <<>>)
  ELSE IF s[i] = "{"
  THEN IF SkipSpace(s, i + 1) <= Len(s) /\ s[SkipSpace(s, i + 1)] = "}"
       THEN Scanned(JDict(<<>>), SkipSpace(s, i + 1) + 1)
       ELSE ScanMembers(s, SkipSpace(s, i + 1), <<>>)
  ELSE IF s[i] = "["
  THEN IF SkipSpace(s, i + 1) <= Len(s) /\ s[SkipSpace(s, i + 1)] = "]"
       THEN Scanned(JList(<<>>), SkipSpace(s, i + 1) + 1)
       ELSE ScanItems(s, SkipSpace(s, i + 1), <<>>)
  ELSE IF s[i] \in Digits \cup {"-"} THEN ScanNumber(s, i)
  ELSE IF \E w \in Literals : StartsAt(s, i, w)
  THEN LET w == CHOOSE w \in Literals : StartsAt(s, i, w)
       IN Scanned(JLit(w), i + Len(w))
  ELSE ScanError

(* The members of an object from position i, where a quoted key must       *)
(* stand, up to the closing brace.                                         *)
ScanMembers(s, i, acc) ==
  IF i > Len(s) \/ s[i] # "\"" THEN ScanError
  ELSE LET k == ScanString(s, i + 1, <<>>)
       IN IF ~k.ok THEN ScanError
          ELSE LET c == SkipSpace(s, k.next)
               IN IF c > Len(s) \/ s[c] # ":" THEN ScanError
                  ELSE LET x == ScanValue(s, SkipSpace(s, c + 1))
                       IN IF ~x.ok THEN ScanError
                          ELSE LET e == SkipSpace(s, x.next)
                                   all == Append(acc, Member(k.val.v, x.val))
                               IN IF e > Len(s) THEN ScanError
                                  ELSE IF s[e] = "}" THEN Scanned(JDict(all), e + 1)
                                  ELSE IF s[e] = ","
                                  THEN ScanMembers(s, SkipSpace(s, e + 1), all)
                                  ELSE ScanError

(* The items of an array from position i up to the closing bracket.        *)
ScanItems(s, i, acc) ==
  LET x == ScanValue(s, i)
  IN IF ~x.ok THEN ScanError
     ELSE LET e == SkipSpace(s, x.next)
              all == Append(acc, x.val)
          IN IF e > Len(s) THEN ScanError
             ELSE IF s[e] = "]" THEN Scanned(JList(all), e + 1)
             ELSE IF s[e] = "," THEN ScanItems(s, SkipSpace(s, e + 1), all)
             ELSE ScanError

(* json.loads(text): the value, or JSONDecodeError when no value starts    *)
(* the text or anything but whitespace follows it.                         *)
json_loads(s) ==
  LET x == ScanValue(s, SkipSpace(s, 1))
  IN IF x.ok /\ SkipSpace(s, x.next) > Len(s) THEN x.val ELSE JSONDecodeError

(* No reply has been parsed.                                               *)
NotLoaded == [t |-> "none", v |-> <<>>]

(* The section key as the reply texts write it.                            *)
SectionKeyText == <<"k">>

RECURSIVE DropWord(_)
DropWord(s) == IF s # <<>> /\ ~IsSpace(Head(s)) THEN DropWord(Tail(s)) ELSE s

(* len(s.split())                                                          *)
RECURSIVE WordCount(_)
WordCount(s) ==
  IF LStrip(s) = <<>> THEN 0 ELSE 1 + WordCount(DropWord(LStrip(s)))

(* w in s, for strings.                                                    *)
Contains(s, w) ==
  \E i \in 1 .. Len(s) - Len(w) + 1 : SubSeq(s, i, i + Len(w) - 1) = w

(* k in d, for a dict d.                                                   *)
HasMember(d, k) == \E i \in 1 .. Len(d.v) : d.v[i].key = k

(* d[k]: the value of the last member with key k.                          *)
Lookup(d, k) ==
  d.v[CHOOSE i \in 1 .. Len(d.v) :
        d.v[i].key = k /\ \A j \in i + 1 .. Len(d.v) : d.v[j].key # k].value

(* A parsed section value as lines 529-543 look at it: its kind, its       *)
(* stripped length or number of records, its number of words.              *)
AbstractValue(x) ==
  CASE x.t = "str" -> StrValue(Len(Strip(x.v)), WordCount(x.v))
    [] x.t = "list" -> ListValue(Len(x.v))
    [] x.t = "dict" -> OtherValue("object")
    [] OTHER -> OtherValue("scalar")

(* What lines 520-526 see of the parsed reply x for section key k: its     *)
(* shape, whether `k in result` holds, whether it has other keys, and the  *)
(* value under k.                                                          *)
Abstract(x, k) ==
  CASE x.t = "JSONDecodeError" -> Parsed("unparsable", FALSE, FALSE, NoValue)
    [] x.t = "dict" ->
         Parsed("object", HasMember(x, k), \E i \in 1 .. Len(x.v) : x.v[i].key # k,
                IF HasMember(x, k) THEN AbstractValue(Lookup(x, k)) ELSE NoValue)
    [] x.t = "list" ->
         Parsed("array", \E i \in 1 .. Len(x.v) : x.v[i].t = "str" /\ x.v[i].v = k,
                FALSE, NoValue)
    [] x.t = "str" -> Parsed("string", Contains(x.v, k), FALSE, NoValue)
    [] OTHER -> Parsed("scalar", FALSE, FALSE, NoValue)

----------------------------------------------------------------------------
(* The arguments of generate_business_plan and of call_individual_section, *)
(* the context of lines 610-626 and the prompt of                          *)
(* build_individual_section_prompt.  A text is known by its length.        *)

(* max_input_length                                                        *)
max_input_length == 122000

(* len("...")                                                              *)
MarkerLen == 3

(* The longest user_input list drawn.                                      *)
MaxItems == 2

(* An argument value: its type, what len() returns for it, and the length  *)
(* of str() of it.                                                         *)
Value(kd, n, chars) == [kind |-> kd, len |-> n, text |-> chars]

None == Value("None", 0, 0)

(* The items of user_input: strings at and around the cap, and objects     *)
(* whose str() is that long.                                               *)
Items ==
  { Value("str", n, n) : n \in {1, max_input_length, max_input_length + 1} }
  \cup { Value("dict", 1, n) : n \in {1, max_input_length, max_input_length + 1} }

(* uploaded_file: None, a string at or over the cap, or, as                *)
(* BusinessIdeaInput declares it, a list of few or of many parts.          *)
Uploads ==
  { None,
    Value("str", max_input_length, max_input_length),
    Value("str", max_input_length + 1, max_input_length + 1),
    Value("list", 1, max_input_length + 1),
    Value("list", max_input_length + 1, 2 * max_input_length) }

RECURSIVE SeqsUpTo(_, _)
SeqsUpTo(S, n) ==
  IF n = 0 THEN { <<>> }
  ELSE SeqsUpTo(S, n - 1)
       \cup { Append(q, x) : q \in { p \in SeqsUpTo(S, n - 1) : Len(p) = n - 1 }, x \in S }

(* Every key of the registry.                                              *)
AllKeys ==
  { INDIVIDUAL_SECTION_SCHEMAS[i].key : i \in 1 .. Len(INDIVIDUAL_SECTION_SCHEMAS) }

(* Keys the registry does not have.                                        *)
UnknownKeys == { "unknown_section", "Management_Team" }

Request(k, items, file, lang, cur) ==
  [section_key |-> k, user_input |-> items, uploaded_file |-> file,
   language |-> lang, currency |-> cur]

NoRequest == Request("", <<>>, None, "", "")

Requests ==
  { Request(k, items, file, lang, cur) :
      k \in RegistryKeys \cup UnknownKeys,
      items \in SeqsUpTo(Items, MaxItems),
      file \in Uploads,
      lang \in {"English", "Italian"},
      cur \in {"EUR", "USD"} }

(* A part of the context: how many characters of its source it keeps and   *)
(* whether "..." follows them.                                             *)
Piece(n, mark) == [kept |-> n, marker |-> mark]

NoPiece == Piece(0, FALSE)

PieceLen(p) == p.kept + (IF p.marker THEN MarkerLen ELSE 0)

(* Lines 615-618: a str item over the cap is cut, any other item is        *)
(* str(item).                                                              *)
ItemPiece(item) ==
  IF item.kind = "str" /\ item.len > max_input_length
  THEN Piece(max_input_length, TRUE)
  ELSE Piece(item.text, FALSE)

(* Lines 623-626 for an uploaded_file that is not empty: a value longer    *)
(* than the cap is sliced and "..." is added to it, which raises TypeError *)
(* for a list.                                                             *)
UploadRaises(file) == file.kind = "list" /\ file.len > max_input_length

UploadPiece(file) ==
  IF file.kind = "None" THEN NoPiece
  ELSE IF file.len > max_input_length THEN Piece(max_input_length, TRUE)
  ELSE Piece(file.text, FALSE)

Context(pieces, doc) == [items |-> pieces, document |-> doc]

NoContext == Context(<<>>, NoPiece)

(* Lines 610-626.                                                          *)
BuildContextOf(req) ==
  Context([i \in 1 .. Len(req.user_input) |-> ItemPiece(req.user_input[i])],
          UploadPiece(req.uploaded_file))

(* The registry entry of a key.                                            *)
SchemaOf(k) ==
  INDIVIDUAL_SECTION_SCHEMAS[CHOOSE i \in 1 .. Len(INDIVIDUAL_SECTION_SCHEMAS) :
                               INDIVIDUAL_SECTION_SCHEMAS[i].key = k]

Prompt(kd, k, lang, cur, words) ==
  [kind |-> kd, section_key |-> k, language |-> lang, currency |-> cur,
   min_words |-> words]

NoPrompt == Prompt("none", "", "", "", 0)

(* raise ValueError(f"Unknown section: {section_key}")                     *)
UnknownSection(k) == Prompt("ValueError", k, "", "", 0)

(* A variant that falls back to a generic prompt for a key it does not     *)
(* know.                                                                   *)
build_generic_prompt(k, lang, cur) ==
  IF k \notin AllKeys THEN Prompt("string", k, lang, cur, 0)
  ELSE Prompt(SchemaOf(k).type, k, lang, cur, SchemaOf(k).min_words)

(* build_individual_section_prompt(section_key, language, currency): the   *)
(* narrative prompt states min_words, the other one the example.           *)
build_individual_section_prompt(k, lang, cur) ==
  IF k \notin AllKeys THEN UnknownSection(k)
  ELSE IF SchemaOf(k).type = "string"
  THEN Prompt("string", k, lang, cur, SchemaOf(k).min_words)
  ELSE Prompt("array", k, lang, cur, 0)

(* A variant whose user message leaves the context out.                    *)
MessagesWithoutContext(p, c) ==
  << [role |-> "system", content |-> p], [role |-> "user", content |-> NoContext] >>

(* Lines 503-506.                                                          *)
Messages(p, c) ==
  << [role |-> "system", content |-> p], [role |-> "user", content |-> c] >>

(* BusinessIdeaInput, the body of a /generate request.                     *)
BusinessIdeaInput(items, file, lang, cur) ==
  [user_input |-> items, uploaded_file |-> file, language |-> lang, currency |-> cur]

NoPayload == BusinessIdeaInput(<<>>, None, "", "")

Init ==
  /\ pc = "start"
  /\ error = "none"
  /\ idx = FirstSection
  /\ job = [k \in RegistryKeys |-> "NotCreated"]
  /\ attempt = [k \in RegistryKeys |-> 0]
  /\ calls = [k \in RegistryKeys |-> 0]
  /\ failed = [k \in RegistryKeys |-> 0]
  /\ kinds = [k \in RegistryKeys |-> {}]
  /\ response = NoResponse
  /\ result = [k \in RegistryKeys |-> NoResult]
  /\ merged_plan = EmptyMap
  /\ plan = EmptyMap
  /\ status = 0
  /\ slept = <<>>
  /\ content = NoContent
  /\ cleaned = <<>>
  /\ loaded = NotLoaded
  /\ request = NoRequest
  /\ context = NoContext
  /\ prompt = NoPrompt
  /\ messages = <<>>
  /\ payload = NoPayload
  /\ suggestions = <<>>
  /\ asked = 0

(* Lines 607-626: settings, client and context, all before the try block;  *)
(* a defect in any of them propagates to the caller.                       *)
Start ==
  /\ pc = "start"
  /\ \E d \in {"none", "settings", "client", "context"} :
        /\ error' = d
        /\ pc' = IF d = "none" THEN "try" ELSE "raised"
  /\ UNCHANGED <<idx, job, attempt, calls, failed, kinds, response, result,
                 merged_plan, plan, status,
                 slept, content, cleaned, loaded,
                 request, context, prompt, messages,
                 payload, suggestions, asked>>

(* Lines 629-641: merged_plan = {} and one coroutine per registry key,     *)
(* created in registry order and not yet started.                          *)
CreateTasks ==
  /\ pc = "try"
  /\ pc' = "await"
  /\ job' = [k \in RegistryKeys |-> "Pending"]
  /\ merged_plan' = EmptyMap
  /\ idx' = FirstSection
  /\ UNCHANGED <<error, attempt, calls, failed, kinds, response, result, plan,
                 status,
                 slept, content, cleaned, loaded,
                 request, context, prompt, messages,
                 payload, suggestions, asked>>

(* Line 646 starts the job of tasks[i]; line 499 builds its prompt outside *)
(* the retry loop's try, so a defect there leaves the job by an exception. *)
AwaitTask ==
  /\ pc = "await"
  /\ job[KeyOf(idx)] = "Pending"
  /\ \E defect \in BOOLEAN :
        /\ job' = [job EXCEPT ![KeyOf(idx)] = IF defect THEN "Raised" ELSE "Ready"]
        /\ prompt' = IF defect THEN prompt
                     ELSE build_individual_section_prompt(KeyOf(idx), request.language,
                                                          request.currency)
  /\ UNCHANGED <<pc, error, idx, attempt, calls, failed, kinds, response,
                 result, merged_plan, plan, status,
                 slept, content, cleaned, loaded,
                 request, context, messages,
                 payload, suggestions, asked>>

(* A variant that fires the next attempt's call while the previous call    *)
(* of the same job is still awaited.                                       *)
CanIssueEager(s) == s \in {"Ready", "InFlight"}

(* A variant whose loop goes on after the return of line 546.              *)
CanIssueDone(s) == s \in {"Ready", "Succeeded"}

(* Line 508 awaits the call inside the loop body: a pass issues its call   *)
(* only when no earlier call of the job is outstanding and no sleep is     *)
(* pending.                                                                *)
CanIssue(s) == s = "Ready"

(* Lines 503-513: the transport call of the current attempt is issued.     *)
IssueCall ==
  /\ pc = "await"
  /\ CanIssue(job[KeyOf(idx)])
  /\ calls[KeyOf(idx)] < CallCap
  /\ job' = [job EXCEPT ![KeyOf(idx)] = "InFlight"]
  /\ calls' = [calls EXCEPT ![KeyOf(idx)] = @ + 1]
  /\ response' = NoResponse
  /\ messages' = Messages(prompt, context)
  /\ UNCHANGED <<pc, error, idx, attempt, failed, kinds, result, merged_plan, plan,
                 status,
                 slept, content, cleaned, loaded,
                 request, context, prompt,
                 payload, suggestions, asked>>

(* Lines 515-563: the call returns or raises; the reply is parsed and      *)
(* validated and the pass returns, retries or gives up.                    *)
ReceiveReply(r) ==
  LET k == KeyOf(idx)
      a == attempt[k]
      o == AttemptOutcome(k, r)
  IN /\ response' = r
     /\ IF Returns(a, o)
        THEN /\ job' = [job EXCEPT ![k] = "Succeeded"]
             /\ result' = [result EXCEPT ![k] = r.parsed]
             /\ UNCHANGED <<attempt, failed, kinds, slept>>
        ELSE /\ failed' = [failed EXCEPT ![k] = @ + 1]
             /\ kinds' = [kinds EXCEPT ![k] = @ \cup {FailureKind(r, o)}]
             /\ IF o = "short"
                THEN /\ job' = [job EXCEPT ![k] = "Ready"]
                     /\ attempt' = [attempt EXCEPT ![k] = NextAttempt(a)]
                     /\ slept' = Append(slept, BackoffDelay(o, a))
                     /\ UNCHANGED result
                ELSE IF LastAttempt(a)
                THEN /\ job' = [job EXCEPT ![k] = "Exhausted"]
                     /\ result' = [result EXCEPT
                                     ![k] = create_empty_individual_section(k)]
                     /\ UNCHANGED <<attempt, slept>>
                ELSE /\ job' = [job EXCEPT ![k] = "Backoff"]
                     /\ attempt' = [attempt EXCEPT ![k] = NextAttempt(a)]
                     /\ slept' = Append(slept, BackoffDelay(o, a))
                     /\ UNCHANGED result
     /\ UNCHANGED <<pc, error, idx, calls, merged_plan, plan, status>>

(* The call of the attempt in flight returns some reply or raises.         *)
Receive ==
  /\ pc = "await"
  /\ job[KeyOf(idx)] = "InFlight"
  /\ \E r \in Replies(KeyOf(idx)) : ReceiveReply(r)
  /\ UNCHANGED <<content, cleaned, loaded, request, context, prompt, messages,
                 payload, suggestions, asked>>

(* Lines 553 and 563: the sleep between two attempts ends.                 *)
Wake ==
  /\ pc = "await"
  /\ job[KeyOf(idx)] = "Backoff"
  /\ job' = [job EXCEPT ![KeyOf(idx)] = "Ready"]
  /\ UNCHANGED <<pc, error, idx, attempt, calls, failed, kinds, response,
                 result, merged_plan, plan, status,
                 slept, content, cleaned, loaded,
                 request, context, prompt, messages,
                 payload, suggestions, asked>>

(* The value line 647-651 stores for a job that returned res.              *)
MergedValue(k, res) ==
  IF res.j = "object" /\ res.haskey THEN res.val ELSE SectionFallback(k)

(* Where the loop goes after the except branch of section i.                                  *)
AfterError(i) == IF i < Len(INDIVIDUAL_SECTION_SCHEMAS) THEN "await" ELSE "log"

(* i < len(tasks) - 1 sleeps after a merge; the last task goes on to line 662. *)
AfterMerge(i) == IF i < Len(INDIVIDUAL_SECTION_SCHEMAS) THEN "pacing" ELSE "log"

(* Lines 646-655: the awaited job returned; its value is merged and the    *)
(* pacing sleep follows unless this was the last task.                     *)
Merge ==
  /\ pc = "await"
  /\ job[KeyOf(idx)] \in {"Succeeded", "Exhausted"}
  /\ merged_plan' = Put(merged_plan, KeyOf(idx), MergedValue(KeyOf(idx), result[KeyOf(idx)]))
  /\ pc' = AfterMerge(idx)
  /\ response' = NoResponse
  /\ slept' = <<>>
  /\ UNCHANGED <<error, idx, job, attempt, calls, failed, kinds, result, plan, status,
                 content, cleaned, loaded,
                 request, context, prompt, messages,
                 payload, suggestions, asked>>

(* Line 655: the pacing sleep ends and the loop takes the next task.       *)
PacingDone ==
  /\ pc = "pacing"
  /\ idx' = idx + 1
  /\ pc' = "await"
  /\ UNCHANGED <<error, job, attempt, calls, failed, kinds, response, result,
                 merged_plan, plan, status,
                 slept, content, cleaned, loaded,
                 request, context, prompt, messages,
                 payload, suggestions, asked>>

(* Lines 657-660: the awaited job raised; the key gets its fallback and    *)
(* the loop goes on without a pacing sleep.                                *)
SectionError ==
  /\ pc = "await"
  /\ job[KeyOf(idx)] = "Raised"
  /\ merged_plan' = Put(merged_plan, KeyOf(idx), SectionFallback(KeyOf(idx)))
  /\ pc' = AfterError(idx)
  /\ idx' = IF idx < Len(INDIVIDUAL_SECTION_SCHEMAS) THEN idx + 1 ELSE idx
  /\ job' = [job EXCEPT ![KeyOf(idx)] = "Failed"]
  /\ response' = NoResponse
  /\ slept' = <<>>
  /\ UNCHANGED <<error, attempt, calls, failed, kinds, result, plan, status,
                 content, cleaned, loaded,
                 request, context, prompt, messages,
                 payload, suggestions, asked>>

(* Lines 662-663: the merged plan is returned.                             *)
Return ==
  /\ pc = "log"
  /\ pc' = "returned"
  /\ plan' = merged_plan
  /\ UNCHANGED <<error, idx, job, attempt, calls, failed, kinds, response,
                 result, merged_plan, status,
                 slept, content, cleaned, loaded,
                 request, context, prompt, messages,
                 payload, suggestions, asked>>

(* Lines 665-671: a defect raised inside the outer try and outside the     *)
(* per-section try (before the loop, or at line 662 after it) is caught    *)
(* and the all-defaults plan is returned.                                  *)
CriticalError ==
  /\ pc \in {"try", "log"}
  /\ error' = "critical"
  /\ plan' = empty_plan
  /\ pc' = "returned"
  /\ UNCHANGED <<idx, job, attempt, calls, failed, kinds, response, result,
                 merged_plan, status,
                 slept, content, cleaned, loaded,
                 request, context, prompt, messages,
                 payload, suggestions, asked>>

(* create_business_plan (main.py): the plan is returned to the client, or  *)
(* the exception of generate_business_plan becomes an HTTPException 500.   *)
create_business_plan ==
  /\ pc \in {"returned", "raised"}
  /\ status = 0
  /\ status' = IF pc = "returned" THEN 200 ELSE 500
  /\ UNCHANGED <<pc, error, idx, job, attempt, calls, failed, kinds, response,
                 result, merged_plan, plan,
                 slept, content, cleaned, loaded,
                 request, context, prompt, messages,
                 payload, suggestions, asked>>

Next ==
  \/ Start
  \/ CreateTasks
  \/ AwaitTask
  \/ IssueCall
  \/ Receive
  \/ Wake
  \/ Merge
  \/ PacingDone
  \/ SectionError
  \/ Return
  \/ CriticalError
  \/ create_business_plan

Spec == Init /\ [][Next]_vars

(* asyncio runs every runnable coroutine and every sleep ends: each        *)
(* enabled step is eventually taken.                                       *)
FairSpec == Spec /\ WF_vars(Next)

(* The replies of a transport that always answers a narrative section with *)
(* a five-word text and a tabular section with MinRecords records.         *)
ScenarioReplies(k) ==
  IF TypeOf(k) = "string"
  THEN { Text(Parsed("object", TRUE, FALSE, StrValue(n, 5))) :
           n \in { 23, MinChars - 1, MinChars, MinChars + 1 } }
  ELSE { Text(Parsed("object", TRUE, FALSE, ListValue(MinRecords))) }

(* Lines 515-563 on a reply of that transport.                             *)
ScenarioReceive ==
  /\ pc = "await"
  /\ job[KeyOf(idx)] = "InFlight"
  /\ \E r \in ScenarioReplies(KeyOf(idx)) : ReceiveReply(r)
  /\ UNCHANGED <<content, cleaned, loaded, request, context, prompt, messages,
                 payload, suggestions, asked>>

ScenarioNext ==
  \/ Start
  \/ CreateTasks
  \/ AwaitTask
  \/ IssueCall
  \/ ScenarioReceive
  \/ Wake
  \/ Merge
  \/ PacingDone
  \/ SectionError
  \/ Return
  \/ CriticalError
  \/ create_business_plan

ScenarioSpec == Init /\ [][ScenarioNext]_vars

(* The caller cancels the request (asyncio.wait_for, a client disconnect)  *)
(* while generate_business_plan is suspended at one of its awaits: line    *)
(* 646 with the job's call in flight or its retry sleep running, or the    *)
(* pacing sleep of line 655.  asyncio.CancelledError is a BaseException:   *)
(* none of the except Exception clauses (lines 556, 657, 665; main.py)     *)
(* catches it, and merged_plan is dropped with the frame.                  *)
Cancel ==
  /\ \/ pc = "await" /\ job[KeyOf(idx)] \in {"InFlight", "Backoff"}
     \/ pc = "pacing"
  /\ pc' = "cancelled"
  /\ error' = "CancelledError"
  /\ UNCHANGED <<idx, job, attempt, calls, failed, kinds, response, result,
                 merged_plan, plan, status, slept, content, cleaned, loaded,
                 request, context, prompt, messages,
                 payload, suggestions, asked>>

TimeoutNext ==
  \/ Next
  \/ Cancel

TimeoutSpec == Init /\ [][TimeoutNext]_vars

(* One reply text on its way through lines 515-563, for a job whose call   *)
(* is in flight on any of its attempts, the earlier ones having failed in  *)
(* transport and the earlier jobs having raised.                           *)
RepairInit ==
  /\ pc = "reply"
  /\ error = "none"
  /\ idx \in all_sections
  /\ \E a \in 0 .. max_retries - 1 :
       /\ attempt = [k \in RegistryKeys |-> IF k = KeyOf(idx) THEN a ELSE 0]
       /\ calls = [k \in RegistryKeys |-> IF k = KeyOf(idx) THEN a + 1 ELSE 0]
       /\ failed = attempt
       /\ kinds = [k \in RegistryKeys |->
                     IF k = KeyOf(idx) /\ a > 0 THEN {"transport"} ELSE {}]
       /\ slept = [i \in 1 .. a |-> BackoffDelay("Exception", i - 1)]
  /\ job = [k \in RegistryKeys |->
              IF IndexOf(k) < idx THEN "Failed"
              ELSE IF IndexOf(k) = idx THEN "InFlight" ELSE "Pending"]
  /\ response = NoResponse
  /\ result = [k \in RegistryKeys |-> NoResult]
  /\ merged_plan = [k \in { x \in RegistryKeys : IndexOf(x) < idx } |->
                      SectionFallback(k)]
  /\ plan = EmptyMap
  /\ status = 0
  /\ content \in Contents
  /\ cleaned = <<>>
  /\ loaded = NotLoaded
  /\ request = NoRequest
  /\ context = NoContext
  /\ prompt = NoPrompt
  /\ messages = <<>>
  /\ payload = NoPayload
  /\ suggestions = <<>>
  /\ asked = 0

(* Lines 515 and 520: content = ....strip(), then                          *)
(* json.loads(clean_json_response(content)).                               *)
CleanReply ==
  /\ pc = "reply"
  /\ cleaned' = clean_json_response(Strip(ReplyText(content)))
  /\ loaded' = json_loads(cleaned')
  /\ pc' = "cleaned"
  /\ UNCHANGED <<error, idx, job, attempt, calls, failed, kinds, response, result,
                 merged_plan, plan, status, slept, content, request, context,
                 prompt, messages,
                 payload, suggestions, asked>>

(* Lines 523-563 on the parsed reply.                                      *)
ClassifyReply ==
  /\ pc = "cleaned"
  /\ job[KeyOf(idx)] = "InFlight"
  /\ ReceiveReply(Text(Abstract(loaded, SectionKeyText)))
  /\ UNCHANGED <<content, cleaned, loaded, request, context, prompt, messages,
                 payload, suggestions, asked>>

RepairNext ==
  \/ CleanReply
  \/ ClassifyReply

RepairSpec == RepairInit /\ [][RepairNext]_vars

(* One call of generate_business_plan's context building followed by one   *)
(* call of call_individual_section up to its first transport call, for     *)
(* any arguments, a section key the registry lacks included.               *)
RequestInit ==
  /\ pc = "request"
  /\ error = "none"
  /\ idx = FirstSection
  /\ job = [k \in RegistryKeys |-> "NotCreated"]
  /\ attempt = [k \in RegistryKeys |-> 0]
  /\ calls = [k \in RegistryKeys |-> 0]
  /\ failed = [k \in RegistryKeys |-> 0]
  /\ kinds = [k \in RegistryKeys |-> {}]
  /\ response = NoResponse
  /\ result = [k \in RegistryKeys |-> NoResult]
  /\ merged_plan = EmptyMap
  /\ plan = EmptyMap
  /\ status = 0
  /\ slept = <<>>
  /\ content = NoContent
  /\ cleaned = <<>>
  /\ loaded = NotLoaded
  /\ request \in Requests
  /\ context = NoContext
  /\ prompt = NoPrompt
  /\ messages = <<>>
  /\ payload = NoPayload
  /\ suggestions = <<>>
  /\ asked = 0

(* Lines 610-626: the context is built, or slicing a list that is over the *)
(* cap raises before the try of line 628.                                  *)
BuildContext ==
  /\ pc = "request"
  /\ IF UploadRaises(request.uploaded_file)
     THEN /\ pc' = "raised"
          /\ error' = "context"
          /\ UNCHANGED context
     ELSE /\ pc' = "context"
          /\ context' = BuildContextOf(request)
          /\ UNCHANGED error
  /\ UNCHANGED <<idx, job, attempt, calls, failed, kinds, response, result,
                 merged_plan, plan, status, slept, content, cleaned, loaded,
                 request, prompt, messages,
                 payload, suggestions, asked>>

(* Line 499: the prompt is built before the retry loop and outside its     *)
(* try; its ValueError leaves call_individual_section.                     *)
BuildPrompt ==
  /\ pc = "context"
  /\ prompt' = build_individual_section_prompt(request.section_key,
                                               request.language, request.currency)
  /\ pc' = IF prompt'.kind = "ValueError" THEN "raised" ELSE "prompted"
  /\ error' = IF prompt'.kind = "ValueError" THEN "ValueError" ELSE error
  /\ UNCHANGED <<idx, job, attempt, calls, failed, kinds, response, result,
                 merged_plan, plan, status, slept, content, cleaned, loaded,
                 request, context, messages,
                 payload, suggestions, asked>>

(* Lines 503-513: the messages of the first attempt are sent.              *)
SendCall ==
  /\ pc = "prompted"
  /\ messages' = Messages(prompt, context)
  /\ pc' = "sent"
  /\ UNCHANGED <<error, idx, job, attempt, calls, failed, kinds, response, result,
                 merged_plan, plan, status, slept, content, cleaned, loaded,
                 request, context, prompt,
                 payload, suggestions, asked>>

RequestNext ==
  \/ BuildContext
  \/ BuildPrompt
  \/ SendCall

RequestSpec == RequestInit /\ [][RequestNext]_vars

(* The bodies of /generate requests: none, one short or one over-long      *)
(* item; no document, a text or a list over the cap; the language and the  *)
(* currency of the caller (BusinessIdeaInput defaults: English, Euro).     *)
Payloads ==
  { BusinessIdeaInput(items, file, lang, cur) :
      items \in { <<>>, << Value("str", 1, 1) >>,
                  << Value("dict", 1, max_input_length + 1) >> },
      file \in { None, Value("str", max_input_length, max_input_length),
                 Value("list", max_input_length + 1, 2 * max_input_length) },
      lang \in {"English", "Italian"},
      cur \in {"Euro", "USD"} }

(* A /generate request has arrived at create_business_plan.                *)
GenerationInit ==
  /\ pc = "endpoint"
  /\ error = "none"
  /\ idx = FirstSection
  /\ job = [k \in RegistryKeys |-> "NotCreated"]
  /\ attempt = [k \in RegistryKeys |-> 0]
  /\ calls = [k \in RegistryKeys |-> 0]
  /\ failed = [k \in RegistryKeys |-> 0]
  /\ kinds = [k \in RegistryKeys |-> {}]
  /\ response = NoResponse
  /\ result = [k \in RegistryKeys |-> NoResult]
  /\ merged_plan = EmptyMap
  /\ plan = EmptyMap
  /\ status = 0
  /\ slept = <<>>
  /\ content = NoContent
  /\ cleaned = <<>>
  /\ loaded = NotLoaded
  /\ request = NoRequest
  /\ context = NoContext
  /\ prompt = NoPrompt
  /\ messages = <<>>
  /\ payload \in Payloads
  /\ suggestions = <<>>
  /\ asked = 0

(* main.py lines 53-57: generate_business_plan is called with              *)
(* uploaded_file, user_input and user_id only, so language and currency    *)
(* take the defaults of its signature (services.py lines 602-603).         *)
CallGenerate ==
  /\ pc = "endpoint"
  /\ request' = Request("", payload.user_input, payload.uploaded_file,
                        "English", "EUR")
  /\ pc' = "request"
  /\ UNCHANGED <<error, idx, job, attempt, calls, failed, kinds, response, result,
                 merged_plan, plan, status, slept, content, cleaned, loaded,
                 context, prompt, messages, payload, suggestions, asked>>

(* Line 628: the context is built and the try block is entered.            *)
EnterTry ==
  /\ pc = "context"
  /\ pc' = "try"
  /\ UNCHANGED <<error, idx, job, attempt, calls, failed, kinds, response, result,
                 merged_plan, plan, status, slept, content, cleaned, loaded,
                 request, context, prompt, messages, payload, suggestions, asked>>

(* The replies of the upstream, one of each class: the call raises, the    *)
(* text does not parse, the text is a valid section.                       *)
GenerationReplies(k) ==
  { Raises,
    Text(Parsed("unparsable", FALSE, FALSE, NoValue)),
    Text(Parsed("object", TRUE, FALSE,
                IF TypeOf(k) = "string" THEN Prose(MinWordsOf(k))
                ELSE ListValue(MinRecords))) }

GenerationReceive ==
  /\ pc = "await"
  /\ job[KeyOf(idx)] = "InFlight"
  /\ \E r \in GenerationReplies(KeyOf(idx)) : ReceiveReply(r)
  /\ UNCHANGED <<content, cleaned, loaded, request, context, prompt, messages,
                 payload, suggestions, asked>>

GenerationNext ==
  \/ CallGenerate
  \/ BuildContext
  \/ EnterTry
  \/ CreateTasks
  \/ AwaitTask
  \/ IssueCall
  \/ GenerationReceive
  \/ Wake
  \/ Merge
  \/ PacingDone
  \/ SectionError
  \/ Return
  \/ CriticalError
  \/ create_business_plan

GenerationSpec == GenerationInit /\ [][GenerationNext]_vars

----------------------------------------------------------------------------
(* generate_suggestions: one transport call, its reply cleaned and parsed, *)
(* the first suggestions of a list or the fixed fallback list.             *)

(* suggestions[:4]                                                         *)
MaxSuggestions == 4

(* The list returned by the except branch (lines 722-727).                 *)
FallbackSuggestions ==
  << JStr(<<"Bootstrapping with personal funds">>),
     JStr(<<"Seeking angel investment">>),
     JStr(<<"Applying for business loans">>),
     JStr(<<"Crowdfunding campaign">>) >>

(* A variant that returns the whole list.                                  *)
FirstAll(items) == items

(* suggestions[:4]                                                         *)
FirstFour(items) ==
  Take(items, IF Len(items) < MaxSuggestions THEN Len(items) ELSE MaxSuggestions)

StartsWith(s, p) ==
  Len(s) >= Len(p) /\ \A i \in 1 .. Len(p) : s[i] = p[i]

(* re.sub(r"^```(json)?\s*", "", content): the tag is matched in lower     *)
(* case only.                                                              *)
StripFenceOpen(s) ==
  IF StartsWith(s, JsonFence) THEN LStrip(Drop(s, Len(JsonFence)))
  ELSE IF StartsWith(s, Fence) THEN LStrip(Drop(s, Len(Fence)))
  ELSE s

(* re.sub(r"\s*```$", "", content) on a text without trailing whitespace.  *)
StripFenceClose(s) ==
  IF EndsWith(s, Fence) THEN RStrip(Take(s, Len(s) - Len(Fence))) ELSE s

(* Lines 704-709: strip, then the fences when the text starts with one.    *)
clean_suggestions(text) ==
  IF StartsWith(Strip(text), Fence)
  THEN StripFenceClose(StripFenceOpen(Strip(text)))
  ELSE Strip(text)

(* Lines 712-717 on the parsed value: a list gives its first items,        *)
(* anything else raises into the except branch.                            *)
SuggestionsOf(x) ==
  IF x.t = "list" THEN FirstFour(x.v) ELSE FallbackSuggestions

(* ["s", "s", ...] with n items.                                           *)
RECURSIVE StringItems(_)
StringItems(n) ==
  IF n = 0 THEN <<>>
  ELSE IF n = 1 THEN <<"\"", "s", "\"">>
  ELSE StringItems(n - 1) \o <<",", " ", "\"", "s", "\"">>

StringArray(n) == <<"[">> \o StringItems(n) \o <<"]">>

SuggestionBodies ==
  { StringArray(n) : n \in 0 .. MaxSuggestions + 1 }
  \cup { ArrayOfObjects, PlainObject, TruncatedAfterList,
         <<"[", "\"", "s", "\"", ",">>,
         <<"1">>, <<"n", "u", "l", "l">>, <<"\"", "o", "k", "\"">>,
         <<"o", "k">>, <<>> }

SuggestionHeads ==
  { <<>>, <<" ", "\n">>,
    JsonFence \o <<"\n">>,
    Fence \o <<"J", "S", "O", "N", "\n">>,
    Fence \o <<"\n">>,
    <<"O", "k", ":", " ">> }

SuggestionTails ==
  { <<>>, <<"\n">>, ClosingFence, ClosingFence \o <<"\n">>, <<"\n", "o", "k">> }

SuggestionContents ==
  { Reply(h, o, t) : h \in SuggestionHeads, o \in SuggestionBodies,
                     t \in SuggestionTails }

(* A /suggestions request has arrived.                                     *)
SuggestInit ==
  /\ pc = "suggest"
  /\ error = "none"
  /\ idx = FirstSection
  /\ job = [k \in RegistryKeys |-> "NotCreated"]
  /\ attempt = [k \in RegistryKeys |-> 0]
  /\ calls = [k \in RegistryKeys |-> 0]
  /\ failed = [k \in RegistryKeys |-> 0]
  /\ kinds = [k \in RegistryKeys |-> {}]
  /\ response = NoResponse
  /\ result = [k \in RegistryKeys |-> NoResult]
  /\ merged_plan = EmptyMap
  /\ plan = EmptyMap
  /\ status = 0
  /\ slept = <<>>
  /\ content = NoContent
  /\ cleaned = <<>>
  /\ loaded = NotLoaded
  /\ request = NoRequest
  /\ context = NoContext
  /\ prompt = NoPrompt
  /\ messages = <<>>
  /\ payload = NoPayload
  /\ suggestions = <<>>
  /\ asked = 0

(* Lines 686-702: the one message is built and the call is issued.         *)
AskSuggestions ==
  /\ pc = "suggest"
  /\ prompt' = Prompt("suggestion", "", "", "", 0)
  /\ messages' = << [role |-> "system", content |-> prompt'] >>
  /\ asked' = asked + 1
  /\ pc' = "asked"
  /\ UNCHANGED <<error, idx, job, attempt, calls, failed, kinds, response, result,
                 merged_plan, plan, status, slept, content, cleaned, loaded,
                 request, context, payload, suggestions>>

(* Lines 704-727: the call raises, or its text is cleaned and parsed; a    *)
(* list gives its first items, every failure the fallback list.            *)
ReceiveSuggestions ==
  /\ pc = "asked"
  /\ \/ /\ response' = Raises
        /\ suggestions' = FallbackSuggestions
        /\ UNCHANGED <<content, cleaned, loaded>>
     \/ \E c \in SuggestionContents :
          /\ response' = Text(NoResult)
          /\ content' = c
          /\ cleaned' = clean_suggestions(ReplyText(c))
          /\ loaded' = json_loads(cleaned')
          /\ suggestions' = SuggestionsOf(loaded')
  /\ pc' = "suggested"
  /\ UNCHANGED <<error, idx, job, attempt, calls, failed, kinds, result,
                 merged_plan, plan, status, slept, request, context, prompt,
                 messages, payload, asked>>

(* get_suggestions (main.py): SuggestionResponse takes a list of strings;  *)
(* its validation error becomes an HTTPException 500.                      *)
get_suggestions ==
  /\ pc = "suggested"
  /\ status = 0
  /\ status' = IF \A i \in 1 .. Len(suggestions) : suggestions[i].t = "str"
               THEN 200 ELSE 500
  /\ UNCHANGED <<pc, error, idx, job, attempt, calls, failed, kinds, response,
                 result, merged_plan, plan, slept, content, cleaned, loaded,
                 request, context, prompt, messages, payload, suggestions, asked>>

SuggestNext ==
  \/ AskSuggestions
  \/ ReceiveSuggestions
  \/ get_suggestions

SuggestSpec == SuggestInit /\ [][SuggestNext]_vars

----------------------------------------------------------------------------
(* Vocabulary of the properties.                                           *)

Narrative(k) == TypeOf(k) = "string"

Tabular(k) == TypeOf(k) = "json"

(* The contract-shaped empty default of a key's kind.                      *)
KindDefault(k) == IF Narrative(k) THEN EmptyString ELSE EmptyList

Terminal(k) == job[k] \in {"Succeeded", "Exhausted"}

(* The job of section k is the one being awaited and its latest reply has  *)
(* been parsed and classified.                                             *)
Classified(k) ==
  /\ pc = "await"
  /\ k = KeyOf(idx)
  /\ response.t = "text"
  /\ job[k] \in {"Ready", "Backoff", "Succeeded", "Exhausted"}

(* The latest reply is an object carrying value v under the section key.   *)
Carries(v) ==
  /\ response.t = "text"
  /\ response.parsed.j = "object"
  /\ response.parsed.haskey
  /\ response.parsed.val = v

(* The validator's contract: a parsed reply that lacks the key, a          *)
(* narrative that is no text, is under the length floor or has fewer than  *)
(* 0.8 x min_words words, a tabular value that is no list or has fewer     *)
(* than MinRecords records.                                                *)
ContractInvalid(k, p) ==
  /\ p.j # "unparsable"
  /\ \/ ~(p.j = "object" /\ p.haskey)
     \/ Narrative(k) /\ (p.val.kind # "str" \/ p.val.size < MinChars
                          \/ 10 * p.val.words < 8 * MinWordsOf(k))
     \/ Tabular(k) /\ (p.val.kind # "list" \/ p.val.size < MinRecords)

----------------------------------------------------------------------------
(* C1: whenever generate_business_plan returns, by the merge path or by    *)
(* the whole-document fallback, the keys of the returned document are      *)
(* exactly the keys of the registry.                                       *)
C1_DocumentKeys == pc = "returned" => DOMAIN plan = RegistryKeys

(* A merge-path return in which one job was exhausted, one succeeded.      *)
C1_Witness ==
  /\ pc = "returned"
  /\ error = "none"
  /\ \E k \in RegistryKeys : job[k] = "Exhausted"
  /\ \E k \in RegistryKeys : job[k] = "Succeeded"

(* C2: in every returned document each narrative key holds a string and    *)
(* each tabular key holds a list.                                          *)
C2_TypedValues ==
  pc = "returned" =>
    \A k \in RegistryKeys :
      /\ Narrative(k) => plan[k].kind = "str"
      /\ Tabular(k) => plan[k].kind = "list"

(* C3: the default produced for a key on exhaustion, by the per-section    *)
(* fallback and by the whole-document fallback is the empty string for a   *)
(* narrative key and the empty list for a tabular key, and never a missing *)
(* value.                                                                  *)
C3_DefaultsMatchKind ==
  \A k \in RegistryKeys :
    /\ job[k] = "Exhausted" =>
         /\ result[k].j = "object" /\ result[k].haskey
         /\ result[k].val = KindDefault(k)
         /\ k \in DOMAIN merged_plan => merged_plan[k] = KindDefault(k)
    /\ job[k] = "Failed" => k \in DOMAIN merged_plan /\ merged_plan[k] = KindDefault(k)
    /\ (pc = "returned" /\ error = "critical") =>
         k \in DOMAIN plan /\ plan[k] = KindDefault(k)

(* The whole-document fallback taken after one job was exhausted and       *)
(* another left by an exception.                                           *)
C3_Witness ==
  /\ pc = "returned"
  /\ error = "critical"
  /\ \E k \in RegistryKeys : job[k] = "Exhausted" /\ Narrative(k)
  /\ \E k \in RegistryKeys : job[k] = "Failed" /\ Tabular(k)

(* C4: a job whose every attempt ended in a validation failure has issued  *)
(* exactly max_retries calls and resolved to the empty default.            *)
C4_ValidationExhausts ==
  \A k \in RegistryKeys :
    ( /\ Classified(k)
      /\ Terminal(k)
      /\ kinds[k] \subseteq {"validation"}
      /\ ContractInvalid(k, response.parsed) )
    => /\ calls[k] = max_retries
       /\ job[k] = "Exhausted"
       /\ result[k].val = KindDefault(k)

(* C5 as claimed: generate_business_plan never raises to its caller, and   *)
(* after any defect the document returned holds every key's default.       *)
C5_NeverRaises ==
  /\ pc # "raised"
  /\ (pc = "returned" /\ error # "none") => plan = [k \in RegistryKeys |-> KindDefault(k)]

(* C5 amended: a defect inside the try block and outside the per-section   *)
(* boundary yields the all-defaults document; a defect before the try      *)
(* block (settings, client, context) is raised to the caller before any    *)
(* job exists, and the endpoint answers 500.                               *)
C5_DefectOutcome ==
  /\ error = "critical" =>
       pc = "returned" /\ plan = [k \in RegistryKeys |-> KindDefault(k)]
                       /\ status \in {0, 200}
  /\ error \in {"settings", "client", "context"} =>
       /\ pc = "raised"
       /\ plan = EmptyMap
       /\ \A k \in RegistryKeys : job[k] = "NotCreated" /\ calls[k] = 0
       /\ status \in {0, 500}
  /\ pc = "raised" => error \in {"settings", "client", "context"}

(* The fallback discards a plan in which a section had succeeded.          *)
C5_Witness ==
  /\ error = "critical"
  /\ status = 200
  /\ \E k \in RegistryKeys : job[k] = "Succeeded" /\ merged_plan[k] # KindDefault(k)

(* C6: a job all of whose attempts failed in the transport ends Exhausted  *)
(* with the empty default, never by an exception; the loop then goes on to *)
(* the next section, and a merge-path return has started every job.        *)
C6_TransportExhaustion ==
  /\ \A k \in RegistryKeys :
       (kinds[k] = {"transport"} /\ failed[k] = max_retries) =>
          /\ job[k] = "Exhausted"
          /\ calls[k] = max_retries
          /\ result[k] = create_empty_individual_section(k)
          /\ pc # "raised"
          /\ (idx > IndexOf(k) \/ pc \in {"pacing", "log", "returned"}) =>
                k \in DOMAIN merged_plan /\ merged_plan[k] = KindDefault(k)
  /\ (pc = "returned" /\ error = "none") =>
       \A k \in RegistryKeys : job[k] \in {"Succeeded", "Exhausted", "Failed"}

(* A later section succeeded after an earlier one was exhausted by         *)
(* transport failures alone.                                               *)
C6_Witness ==
  \E k \in RegistryKeys, n \in RegistryKeys :
    /\ IndexOf(k) < IndexOf(n)
    /\ kinds[k] = {"transport"} /\ job[k] = "Exhausted"
    /\ job[n] = "Succeeded" /\ calls[n] >= 1
    /\ pc = "returned"

(* C7: one attempt budget per job: the calls issued for a section never    *)
(* exceed max_retries, and every failed attempt, of whatever kind, uses    *)
(* exactly one unit of it.                                                 *)
C7_OneBudget ==
  \A k \in RegistryKeys :
    /\ calls[k] <= max_retries
    /\ job[k] \in {"Ready", "Backoff"} =>
         calls[k] = failed[k] /\ attempt[k] = failed[k] /\ attempt[k] < max_retries
    /\ job[k] \in {"InFlight", "Succeeded"} =>
         calls[k] = failed[k] + 1 /\ attempt[k] = failed[k]
    /\ job[k] = "Exhausted" => calls[k] = max_retries /\ failed[k] = max_retries

(* A job exhausted by one failure of each kind.                            *)
C7_Witness ==
  \E k \in RegistryKeys :
    /\ job[k] = "Exhausted"
    /\ kinds[k] = {"transport", "unparsable", "validation"}

C9_RecordBoundary ==
  \A k \in RegistryKeys :
    (Tabular(k) /\ Classified(k)) =>
      /\ Carries(ListValue(MinRecords)) => job[k] = "Succeeded"
      /\ Carries(ListValue(MinRecords - 1)) => job[k] # "Succeeded"

(* The steps a job can still take: three per remaining attempt (call,     *)
(* reply, sleep), one to start it and one to merge it.                     *)
JobMeasure(k) ==
  CASE job[k] = "NotCreated" -> 3 * max_retries + 4
    [] job[k] = "Pending"    -> 3 * max_retries + 3
    [] job[k] = "Ready"      -> 3 * (max_retries - attempt[k]) + 1
    [] job[k] = "InFlight"   -> 3 * (max_retries - attempt[k])
    [] job[k] = "Backoff"    -> 3 * (max_retries - attempt[k]) + 2
    [] job[k] \in {"Succeeded", "Exhausted", "Raised"} ->
         IF k \in DOMAIN merged_plan THEN 0 ELSE 1
    [] OTHER -> 0

RECURSIVE SumMeasure(_)
SumMeasure(S) ==
  IF S = {} THEN 0
  ELSE LET k == CHOOSE x \in S : TRUE IN JobMeasure(k) + SumMeasure(S \ {k})

PcMeasure ==
  CASE pc = "start"  -> 5
    [] pc = "try"    -> 4
    [] pc = "pacing" -> 3
    [] pc = "await"  -> 2
    [] pc = "log"    -> 1
    [] OTHER         -> 0

(* An upper bound on the steps left in one generation.                     *)
Measure == 2 * SumMeasure(RegistryKeys) + PcMeasure + (IF status = 0 THEN 1 ELSE 0)

(* C10: every step of a generation lowers a non-negative measure, so no    *)
(* reply sequence lets a job retry forever; the run can stop only once the *)
(* caller has its answer; and at the return every job that issued a call   *)
(* has ended Succeeded or Exhausted.                                       *)
C10_Termination ==
  /\ [][Measure' < Measure]_vars
  /\ [](Measure >= 0)
  /\ [](status # 0 \/ ENABLED Next)
  /\ [](\A k \in RegistryKeys :
          /\ calls[k] >= 1 =>
               job[k] \in {"InFlight", "Ready", "Backoff", "Succeeded", "Exhausted"}
          /\ (pc \in {"log", "returned"} /\ calls[k] >= 1) => Terminal(k))

(* A return after a job that used its whole budget and one that succeeded  *)
(* on its last attempt.                                                    *)
C10_Witness ==
  /\ pc = "returned"
  /\ \E k \in RegistryKeys : job[k] = "Exhausted" /\ calls[k] = max_retries
  /\ \E k \in RegistryKeys : job[k] = "Succeeded" /\ calls[k] = max_retries

----------------------------------------------------------------------------
(* The job of section k has started and has not ended.                     *)
Running(k) == job[k] \in {"Ready", "InFlight", "Backoff"}

(* The job of section k has ended, by a return or by an exception.         *)
Ended(k) == job[k] \in {"Succeeded", "Exhausted", "Raised", "Failed"}

(* The place of key k in the registry's declaration order.                 *)
Position(k) ==
  CHOOSE i \in 1 .. Len(INDIVIDUAL_SECTION_SCHEMAS) :
    INDIVIDUAL_SECTION_SCHEMAS[i].key = k

(* The calls of section k that are not accounted for by a classified       *)
(* attempt of its job.                                                     *)
BeyondAttempts(k) ==
  calls[k] - failed[k] - (IF job[k] = "Succeeded" THEN 1 ELSE 0)

(* C11: section jobs run concurrently and the pacing delay separates       *)
(* dispatches, not completions: while the job of one section is running    *)
(* and the job of the next section has not been started, the orchestrator  *)
(* is not held at the running job, it is in its pacing sleep or has moved  *)
(* on to a later task, so that the next section's first call is issued     *)
(* while the earlier job has not ended.                                    *)
C11_DispatchDoesNotWait ==
  \A i \in all_sections :
    (i + 1 \in all_sections /\ Running(KeyOf(i)) /\ job[KeyOf(i + 1)] = "Pending")
      => (pc = "pacing" \/ idx > i)

(* C12: first calls are issued in registry order: when the job of a key    *)
(* has issued a call, the job of every key declared before it has ended,   *)
(* and has issued its own first call unless it ended by an exception       *)
(* before any call.                                                        *)
C12_RegistryOrder ==
  \A a, b \in RegistryKeys :
    (Position(a) < Position(b) /\ calls[b] >= 1) =>
      /\ Ended(a)
      /\ calls[a] >= 1 \/ job[a] \in {"Raised", "Failed"}

(* The later of two keys has a call in flight after the earlier one used   *)
(* several calls.                                                          *)
C12_Witness ==
  \E a, b \in RegistryKeys :
    /\ Position(a) < Position(b)
    /\ calls[a] >= 2
    /\ job[b] = "InFlight"

(* C13: each key of the merged document is written exactly once, from the  *)
(* result of its own job and only after that job has ended: a step adds    *)
(* one key at most, the key of the task being awaited, whose job has       *)
(* ended, with that job's value (the kind's default when the job raised);  *)
(* a key once written is never written again; extra keys of a reply are    *)
(* never written; and when the loop is over every registry key is there.   *)
C13_WrittenOnce ==
  /\ [](DOMAIN merged_plan \subseteq RegistryKeys)
  /\ [](pc = "log" => DOMAIN merged_plan = RegistryKeys)
  /\ [][\A k \in RegistryKeys :
          /\ k \in DOMAIN merged_plan =>
               k \in DOMAIN merged_plan' /\ merged_plan'[k] = merged_plan[k]
          /\ (k \notin DOMAIN merged_plan /\ k \in DOMAIN merged_plan') =>
               /\ pc = "await"
               /\ k = KeyOf(idx)
               /\ job[k] \in {"Succeeded", "Exhausted", "Raised"}
               /\ DOMAIN merged_plan' = DOMAIN merged_plan \cup {k}
               /\ merged_plan'[k] =
                    IF job[k] = "Raised" THEN KindDefault(k) ELSE result[k].val]_vars

(* A key merged from a reply that carried extra keys, after an earlier key *)
(* was written with its default.                                           *)
C13_Witness ==
  \E k, d \in DOMAIN merged_plan :
    /\ result[k].extra
    /\ job[k] = "Succeeded"
    /\ merged_plan[k] = result[k].val
    /\ job[d] = "Exhausted"

(* C14: the returned document does not depend on the order in which the    *)
(* jobs ended: on the merge path every key holds the value of its own      *)
(* job's result, the kind's default when that job raised, whatever the     *)
(* other jobs returned and whenever they ended.                            *)
C14_OrderIndependent ==
  (pc = "returned" /\ error = "none") =>
    \A k \in RegistryKeys :
      /\ k \in DOMAIN plan
      /\ plan[k] = IF job[k] = "Failed" THEN KindDefault(k) ELSE result[k].val

(* A merge-path return in which a job that raised and a job that           *)
(* succeeded left different values.                                        *)
C14_Witness ==
  /\ pc = "returned"
  /\ error = "none"
  /\ \E a, b \in RegistryKeys :
       /\ job[a] = "Failed"
       /\ job[b] = "Succeeded"
       /\ plan[a] # plan[b]

(* What one reply r does to the job of key k on attempt a, from the job's  *)
(* own data alone: its next state, its loop variable and its result.       *)
OwnOutcome(k, a, r) ==
  LET o == AttemptOutcome(k, r)
  IN IF o = "ok" \/ (o = "short" /\ a >= max_retries - 1)
     THEN <<"Succeeded", a, r.parsed>>
     ELSE IF o = "short" THEN <<"Ready", a + 1, NoResult>>
     ELSE IF a >= max_retries - 1
     THEN <<"Exhausted", a, Parsed("object", TRUE, FALSE, KindDefault(k))>>
     ELSE <<"Backoff", a + 1, NoResult>>

(* C15: jobs are independent: no step taken for one section changes the    *)
(* attempt count, the calls, the failures, the result or the merged value  *)
(* of another section, and what a reply does to a job is determined by     *)
(* that job's own attempt number and that reply alone.                     *)
C15_Independence ==
  [][\A k \in RegistryKeys :
       /\ k # KeyOf(idx) =>
            /\ attempt'[k] = attempt[k]
            /\ calls'[k] = calls[k]
            /\ failed'[k] = failed[k]
            /\ result'[k] = result[k]
            /\ job'[k] = job[k] \/ pc = "try"
            /\ k \in DOMAIN merged_plan =>
                 k \in DOMAIN merged_plan' /\ merged_plan'[k] = merged_plan[k]
       /\ (k = KeyOf(idx) /\ job[k] = "InFlight" /\ job'[k] # "InFlight") =>
            <<job'[k], attempt'[k], result'[k]>> = OwnOutcome(k, attempt[k], response')]_vars

(* A job that used its whole budget and succeeded after an earlier job     *)
(* was exhausted.                                                          *)
C15_Witness ==
  \E a, b \in RegistryKeys :
    /\ Position(a) < Position(b)
    /\ job[a] = "Exhausted"
    /\ job[b] = "Succeeded"
    /\ calls[b] = max_retries

(* C16: within one job the retries are sequential: at most one call of a   *)
(* section is outstanding, it is outstanding exactly while the job awaits  *)
(* it, and every earlier call of that job has by then been classified as   *)
(* a failed attempt.                                                       *)
C16_SequentialRetries ==
  \A k \in RegistryKeys :
    /\ BeyondAttempts(k) \in {0, 1}
    /\ BeyondAttempts(k) = 1 <=> job[k] = "InFlight"
    /\ job[k] = "InFlight" => (failed[k] = attempt[k] /\ calls[k] = attempt[k] + 1)

(* The third call of a job is in flight, its two earlier calls classified. *)
C16_Witness ==
  \E k \in RegistryKeys :
    /\ job[k] = "InFlight"
    /\ calls[k] = max_retries
    /\ failed[k] = max_retries - 1

(* C17: between every two consecutive attempts of a job there is a backoff *)
(* delay, and the delays grow with the attempt number, whichever kind of   *)
(* failure caused the retry.                                               *)
C17_GrowingBackoff ==
  \A k \in RegistryKeys :
    (pc = "await" /\ k = KeyOf(idx) /\ Running(k)) =>
      /\ Len(slept) = attempt[k]
      /\ \A i \in 1 .. Len(slept) : slept[i] > 0
      /\ \A i \in 1 .. Len(slept) - 1 : slept[i + 1] > slept[i]

(* C18: before the document is returned, exactly one more generation call  *)
(* is issued for every narrative entry whose word count is below           *)
(* 0.8 x min_words, and none for the other entries.                        *)
C18_EnhancementPass ==
  (pc = "returned" /\ error = "none") =>
    \A k \in RegistryKeys :
      BeyondAttempts(k) =
        IF Narrative(k) /\ 10 * plan[k].words < 8 * MinWordsOf(k) THEN 1 ELSE 0

(* The heads that are an opening code fence, with or without a tag.        *)
FencedHeads == { h \in Heads : Len(h) >= Len(Fence) /\ Take(h, Len(Fence)) = Fence }

(* The objects with a string value that holds an escaped quote and brace   *)
(* or bracket characters.                                                  *)
QuotedBraceObjects ==
  { OpenBraceInString, CloseBraceInString, BracketsInString, CommaBraceInString }

(* The tails without a brace or a bracket of their own.                    *)
PlainTails == { t \in Tails : \A i \in 1 .. Len(t) : t[i] \notin {"{", "}", "[", "]"} }

(* C19: for every reply made of an opening code fence, one well-formed     *)
(* object and any trailing text (prose with or without braces or           *)
(* brackets, a second object, a closing fence or none), the cleaned text   *)
(* is exactly the embedded first object.                                   *)
C19_WrappedReplyRepaired ==
  (/\ pc = "cleaned"
   /\ content.head \in FencedHeads
   /\ content.object \in Objects) => cleaned = content.object

(* C20: for a reply whose object has a string value with an escaped quote  *)
(* and brace or bracket characters, and nothing but plain text around the  *)
(* object, the cleaned text is exactly the original object: the characters *)
(* inside the string move neither the end of the span nor the string.      *)
C20_QuotedStringsIntact ==
  (/\ pc = "cleaned"
   /\ content.object \in QuotedBraceObjects
   /\ content.tail \in PlainTails) => cleaned = content.object

(* The reply's latest text has been parsed and classified by its job.      *)
TextClassified == pc = "cleaned" /\ response.t = "text"

(* C21: when the whole reply is already well-formed JSON, what the job     *)
(* parses is the value that text denotes: cleaning alters nothing,         *)
(* neither a string value with a comma before a closing brace or bracket   *)
(* nor a reply that is an array of objects.                                *)
C21_DirectParseWins ==
  (pc = "cleaned" /\ json_loads(Strip(ReplyText(content))) # JSONDecodeError)
    => loaded = json_loads(Strip(ReplyText(content)))

(* C22: a reply text that does not parse to an object (empty, prose,       *)
(* unbalanced, a number, null, a string, an array) never ends the job by   *)
(* an exception: it is one failed attempt, followed by a retry or, on the  *)
(* last attempt, by the empty default.                                     *)
C22_MalformedIsData ==
  \A k \in RegistryKeys :
    (TextClassified /\ k = KeyOf(idx) /\ loaded.t # "dict") =>
      /\ job[k] \in {"Backoff", "Exhausted"}
      /\ failed[k] = calls[k]
      /\ job[k] = "Exhausted" <=> calls[k] = max_retries
      /\ job[k] = "Exhausted" =>
           result[k] = Parsed("object", TRUE, FALSE, KindDefault(k))
      /\ job[k] = "Backoff" => result[k] = NoResult

(* The reply null, classified on the last attempt of a job.                *)
C22_Witness ==
  /\ TextClassified
  /\ loaded = JLit(<<"n", "u", "l", "l">>)
  /\ job[KeyOf(idx)] = "Exhausted"

(* The object a near miss was meant to be.                                 *)
Intended(b) ==
  CASE b = TrailingCommaObject -> PlainObject
    [] b = TrailingCommaList -> ListObject
    [] b = UnquotedKeyObject -> PlainObject

(* C23: a reply that is a well-formed object but for a trailing comma      *)
(* before a closing brace or bracket, or but for an unquoted key before a  *)
(* colon, is parsed to the object it was meant to be.                      *)
C23_CosmeticRepair ==
  (/\ pc = "cleaned"
   /\ content.object \in NearMisses
   /\ content.head = <<>>
   /\ content.tail = <<>>) => loaded = json_loads(Intended(content.object))

(* The bodies that are not valid as a whole and hold the fragment          *)
(* "k": "hi" or "k": ["a", "b"].                                           *)
Scrapable == { TruncatedAfterString, TruncatedAfterList, UnbalancedObject }

(* The value of the fragment a scrapable body holds.                       *)
FragmentValue(b) ==
  IF b = TruncatedAfterList
  THEN JList(<<JStr(<<"a">>), JStr(<<"b">>)>>)
  ELSE JStr(<<"h", "i">>)

(* C24: when the cleaned reply is not valid as a whole but holds the       *)
(* fragment "<key>": "<string>" or "<key>": [<items>], the job reads the   *)
(* section's value from that fragment.                                     *)
C24_PatternScraping ==
  (/\ TextClassified
   /\ content.object \in Scrapable
   /\ loaded = JSONDecodeError)
    => response.parsed =
         Parsed("object", TRUE, FALSE, AbstractValue(FragmentValue(content.object)))

(* C25: for a key the registry lacks, build_individual_section_prompt      *)
(* signals an error and call_individual_section ends by it: no transport   *)
(* call is sent and nothing is retried; messages are sent for registry     *)
(* keys only.                                                              *)
C25_UnknownSectionFailsFast ==
  /\ (prompt # NoPrompt /\ request.section_key \notin AllKeys) =>
       /\ prompt = UnknownSection(request.section_key)
       /\ pc = "raised"
       /\ error = "ValueError"
  /\ pc = "raised" => (messages = <<>> /\ ~ENABLED RequestNext)
  /\ messages # <<>> => request.section_key \in AllKeys

(* A key that differs from a registry key by its capitals has been         *)
(* refused.                                                                *)
C25_Witness ==
  /\ pc = "raised"
  /\ error = "ValueError"
  /\ request.section_key = "Management_Team"

(* What the cap promises for a source whose text has n characters.         *)
Capped(n) ==
  IF n > max_input_length THEN Piece(max_input_length, TRUE) ELSE Piece(n, FALSE)

(* C29: every user_input item, string or not, and the uploaded text each   *)
(* contribute at most max_input_length characters plus the marker: a       *)
(* source at or below the cap is included unchanged, a longer one is cut   *)
(* to its first max_input_length characters.                               *)
C29_ContextCapped ==
  pc \in {"context", "prompted", "sent"} =>
    /\ Len(context.items) = Len(request.user_input)
    /\ \A i \in 1 .. Len(context.items) :
         /\ PieceLen(context.items[i]) <= max_input_length + MarkerLen
         /\ context.items[i] = Capped(request.user_input[i].text)
    /\ PieceLen(context.document) <= max_input_length + MarkerLen
    /\ context.document = Capped(request.uploaded_file.text)

(* A run of the scenario without injected defects has returned.            *)
ScenarioDone ==
  /\ pc = "returned"
  /\ error = "none"
  /\ \A k \in RegistryKeys : job[k] \in {"Succeeded", "Exhausted"}

(* C26: with a transport that always replies with a five-word narrative    *)
(* and a MinRecords-record table, the narrative job makes exactly          *)
(* max_retries calls and the document holds "" for it, and the tabular job *)
(* makes exactly one call and the document holds its records.              *)
C26_Scenario ==
  ScenarioDone =>
    \A k \in RegistryKeys :
      IF TypeOf(k) = "string"
      THEN calls[k] = max_retries /\ plan[k] = EmptyString
      ELSE calls[k] = 1 /\ job[k] = "Succeeded" /\ plan[k] = ListValue(MinRecords)

(* C27: once a job is Succeeded or Exhausted, no step changes its state,   *)
(* its result, its value in the merged plan, its attempt counter or its    *)
(* number of transport calls.                                              *)
C27_TerminalAbsorbing ==
  [][\A k \in RegistryKeys :
       Terminal(k) =>
         /\ job'[k] = job[k]
         /\ result'[k] = result[k]
         /\ calls'[k] = calls[k]
         /\ attempt'[k] = attempt[k]
         /\ k \in DOMAIN merged_plan =>
              (k \in DOMAIN merged_plan' /\ merged_plan'[k] = merged_plan[k])]_vars

(* A job that succeeded on its first attempt was left alone until the      *)
(* plan was returned.                                                      *)
C27_Witness ==
  /\ pc = "returned"
  /\ error = "none"
  /\ \E k \in RegistryKeys :
       /\ job[k] = "Succeeded"
       /\ attempt[k] = 0
       /\ calls[k] = 1
       /\ plan[k] = result[k].val

(* C28: when the orchestration is cancelled after some job reached a       *)
(* terminal state, the caller gets the document with the completed jobs'   *)
(* values; an error is the outcome only when no job result is available.   *)
C28_PartialOnTimeout ==
  pc = "cancelled" =>
    IF \E k \in RegistryKeys : Terminal(k)
    THEN /\ error = "none"
         /\ \A k \in RegistryKeys :
              Terminal(k) =>
                (k \in DOMAIN plan /\ plan[k] = MergedValue(k, result[k]))
    ELSE error # "none"

FailsFloor(v) == v.kind # "str" \/ v.size < MinChars

(* The reply to the current narrative job carries, under the section key,  *)
(* a value that is not a string or is shorter than MinChars.               *)
BadNarrativeReply ==
  /\ pc = "await"
  /\ TypeOf(KeyOf(idx)) = "string"
  /\ response.t = "text"
  /\ response.parsed.j = "object"
  /\ response.parsed.haskey
  /\ FailsFloor(response.parsed.val)

(* C30: a narrative value that is not a string or has fewer than MinChars  *)
(* characters is never a succeeded job's value nor a merged value, on any  *)
(* attempt; when it is the reply to the last attempt the job is Exhausted  *)
(* with "".                                                                *)
C30_CharacterFloor ==
  /\ \A k \in RegistryKeys :
       (TypeOf(k) = "string" /\ job[k] = "Succeeded") => ~FailsFloor(result[k].val)
  /\ \A k \in DOMAIN merged_plan :
       TypeOf(k) = "string" =>
         (merged_plan[k] = EmptyString \/ ~FailsFloor(merged_plan[k]))
  /\ BadNarrativeReply =>
       /\ job[KeyOf(idx)] \in {"Backoff", "Ready", "Exhausted"}
       /\ failed[KeyOf(idx)] = max_retries =>
            /\ job[KeyOf(idx)] = "Exhausted"
            /\ result[KeyOf(idx)].val = EmptyString

(* A string one character below the floor came as the reply to the last    *)
(* attempt and the job resolved to "".                                     *)
C30_Witness ==
  /\ BadNarrativeReply
  /\ response.parsed.val = StrValue(MinChars - 1, 8)
  /\ attempt[KeyOf(idx)] = max_retries - 1
  /\ job[KeyOf(idx)] = "Exhausted"
  /\ result[KeyOf(idx)].val = EmptyString

(* What a text parses to is not a mapping that holds the section key: an   *)
(* object with other keys only, an array, a string, a number or null.      *)
LacksKey(p) ==
  \/ p.j \in {"scalar", "array", "string"}
  \/ p.j = "object" /\ ~p.haskey

(* The reply just received by the current job lacks the section key.       *)
KeylessReply ==
  /\ pc = "await"
  /\ response.t = "text"
  /\ LacksKey(response.parsed)

(* C31: a reply that parses to something without the section key is not    *)
(* accepted on any attempt: the step that receives it counts one more      *)
(* failed attempt and leaves the job retrying or exhausted, the job's      *)
(* result is then untouched or the empty default, and what is merged for   *)
(* an exhausted job is the empty default.                                  *)
C31_KeylessNeverAccepted ==
  /\ [](KeylessReply =>
          /\ job[KeyOf(idx)] \in {"Backoff", "Ready", "Exhausted"}
          /\ failed[KeyOf(idx)] >= 1
          /\ job[KeyOf(idx)] = "Exhausted" =>
               result[KeyOf(idx)] = create_empty_individual_section(KeyOf(idx)))
  /\ [](\A k \in DOMAIN merged_plan :
          job[k] = "Exhausted" => merged_plan[k] = SectionFallback(k))
  /\ [][(response'.t = "text" /\ response' # response /\ LacksKey(response'.parsed)) =>
          /\ failed'[KeyOf(idx)] = failed[KeyOf(idx)] + 1
          /\ job'[KeyOf(idx)] \in {"Backoff", "Exhausted"}
          /\ result'[KeyOf(idx)] \in {result[KeyOf(idx)],
                                      create_empty_individual_section(KeyOf(idx))}
          /\ merged_plan' = merged_plan]_vars

(* An object with other keys only came as the reply to the last attempt    *)
(* and the job resolved to its empty default.                              *)
C31_Witness ==
  /\ KeylessReply
  /\ response.parsed.j = "object"
  /\ failed[KeyOf(idx)] = max_retries
  /\ job[KeyOf(idx)] = "Exhausted"
  /\ result[KeyOf(idx)] = create_empty_individual_section(KeyOf(idx))

C33_PacingBetweenSections ==
  /\ [][idx' # idx => pc = "pacing"]_vars
  /\ [](pc = "pacing" => idx < Len(INDIVIDUAL_SECTION_SCHEMAS))

(* C34: once built, the context and the arguments of the generation never  *)
(* change; every transport call of a section carries the prompt built      *)
(* from the section key and the generation's language and currency as its  *)
(* system message and the generation's context as its user message, on     *)
(* every attempt; no other step touches the messages.                      *)
C34_ContextImmutable ==
  [][/\ pc \notin {"endpoint", "request"} =>
          (context' = context /\ request' = request)
     /\ \A k \in RegistryKeys :
          calls'[k] # calls[k] =>
            /\ Len(messages') = 2
            /\ messages'[1].role = "system"
            /\ messages'[1].content =
                 build_individual_section_prompt(k, request.language, request.currency)
            /\ messages'[2].role = "user"
            /\ messages'[2].content = BuildContextOf(request)
     /\ (\A k \in RegistryKeys : calls'[k] = calls[k]) => messages' = messages]_vars

(* The third call of a section is in flight with the context of a          *)
(* generation that has an input item.                                      *)
C34_Witness ==
  /\ pc = "await"
  /\ job[KeyOf(idx)] = "InFlight"
  /\ attempt[KeyOf(idx)] = max_retries - 1
  /\ Len(context.items) > 0
  /\ messages[2].content = context
  /\ messages[1].content.section_key = KeyOf(idx)

(* C35: the language and the currency of the /generate request body are    *)
(* the ones stated in the system prompt of every transport call.           *)
C35_CallerLanguageAndCurrency ==
  messages # <<>> =>
    /\ messages[1].content.language = payload.language
    /\ messages[1].content.currency = payload.currency

====
